---- MODULE Spec2Model ----
(***************************************************************************)
(* Record matching and flagging engine of hirecordmatching:                *)
(*   src/match_analyzer.py  normalize_address, MatchAnalyzer               *)
(*   src/hoa_processing.py  match_records, analyze_matches                 *)
(*                                                                         *)
(* A Python str is a sequence of one-character strings.  A value that is   *)
(* not a str (the float NaN pandas puts in an empty cell) is the sequence  *)
(* NaN, which no str equals.                                               *)
(***************************************************************************)
EXTENDS Integers, Sequences, FiniteSets, TLC

(***************************************************************************)
(* Bounds of the model.                                                    *)
(***************************************************************************)
MaxOwners == 2

MaxHouseholds == 2

(***************************************************************************)
(* Python values and str methods.                                          *)
(***************************************************************************)
NaN == <<"NaN">>

IsStr(x) == x # NaN

\* bool(x) of a str or a NaN: every non-empty str and the float NaN are truthy
Truthy(x) == x # <<>>

\* dict.get(key, default): a row of a frame without the column has no such key
Get(record, key, default) ==
  IF key \in DOMAIN record THEN record[key] ELSE default

UpperLetters ==
  <<"A","B","C","D","E","F","G","H","I","J","K","L","M",
    "N","O","P","Q","R","S","T","U","V","W","X","Y","Z">>

LowerLetters ==
  <<"a","b","c","d","e","f","g","h","i","j","k","l","m",
    "n","o","p","q","r","s","t","u","v","w","x","y","z">>

Digits == {"0","1","2","3","4","5","6","7","8","9"}

\* the lower-case letter of each upper-case letter
LowerOf ==
  [c \in {UpperLetters[k] : k \in 1..26} |->
     LowerLetters[CHOOSE k \in 1..26 : UpperLetters[k] = c]]

LowerChar(c) == IF c \in DOMAIN LowerOf THEN LowerOf[c] ELSE c

\* str.lower()
Lower(s) == [k \in 1..Len(s) |-> LowerChar(s[k])]

Whitespace == {" ", "\n", "\t"}

\* c.isspace()
IsSpace(c) == c \in Whitespace

Alnum ==
  Digits \cup {UpperLetters[k] : k \in 1..26} \cup {LowerLetters[k] : k \in 1..26}

\* c.isalnum()
IsAlnum(c) == c \in Alnum

RECURSIVE LStrip(_)
LStrip(s) == IF s # <<>> /\ IsSpace(Head(s)) THEN LStrip(Tail(s)) ELSE s

RECURSIVE RStrip(_)
RStrip(s) ==
  IF s # <<>> /\ IsSpace(s[Len(s)]) THEN RStrip(SubSeq(s, 1, Len(s) - 1)) ELSE s

\* str.strip()
Strip(s) == RStrip(LStrip(s))

\* whether pat occurs in s at position k
MatchAt(s, pat, k) ==
  /\ k + Len(pat) - 1 <= Len(s)
  /\ \A m \in 1..Len(pat) : s[k + m - 1] = pat[m]

\* pat in s
Contains(s, pat) == \E k \in 1..Len(s) : MatchAt(s, pat, k)

RECURSIVE ReplaceFrom(_, _, _, _)
ReplaceFrom(s, pat, rep, k) ==
  IF k > Len(s) THEN <<>>
  ELSE IF MatchAt(s, pat, k)
       THEN rep \o ReplaceFrom(s, pat, rep, k + Len(pat))
       ELSE <<s[k]>> \o ReplaceFrom(s, pat, rep, k + 1)

\* str.replace(pat, rep): every non-overlapping occurrence, left to right
Replace(s, pat, rep) ==
  IF Contains(s, pat) THEN ReplaceFrom(s, pat, rep, 1) ELSE s

RECURSIVE SplitFrom(_, _, _, _)
SplitFrom(s, sep, k, cur) ==
  IF k > Len(s) THEN <<cur>>
  ELSE IF s[k] = sep
       THEN <<cur>> \o SplitFrom(s, sep, k + 1, <<>>)
       ELSE SplitFrom(s, sep, k + 1, Append(cur, s[k]))

\* str.split(sep) for a one-character separator
Split(s, sep) == SplitFrom(s, sep, 1, <<>>)

RECURSIVE CollapseFrom(_, _)
CollapseFrom(s, k) ==
  IF k > Len(s) THEN <<>>
  ELSE IF IsSpace(s[k])
       THEN IF k > 1 /\ IsSpace(s[k - 1])
            THEN CollapseFrom(s, k + 1)
            ELSE <<" ">> \o CollapseFrom(s, k + 1)
       ELSE <<s[k]>> \o CollapseFrom(s, k + 1)

\* ' '.join(s.split()): whitespace runs become one space, none at the ends
JoinSplit(s) == CollapseFrom(Strip(s), 1)

\* ''.join(c for c in s if c.isalnum() or c.isspace())
KeepAlnumSpace(s) == SelectSeq(s, LAMBDA c : IsAlnum(c) \/ IsSpace(c))

(***************************************************************************)
(* normalize_address                                                       *)
(***************************************************************************)
replacements ==
  << <<<<"s","t","r","e","e","t">>, <<"s","t">>>>,
     <<<<"a","v","e","n","u","e">>, <<"a","v","e">>>>,
     <<<<"b","o","u","l","e","v","a","r","d">>, <<"b","l","v","d">>>>,
     <<<<"d","r","i","v","e">>, <<"d","r">>>>,
     <<<<"r","o","a","d">>, <<"r","d">>>>,
     <<<<"l","a","n","e">>, <<"l","n">>>>,
     <<<<"c","o","u","r","t">>, <<"c","t">>>>,
     <<<<"c","i","r","c","l","e">>, <<"c","i","r">>>>,
     <<<<"p","l","a","c","e">>, <<"p","l">>>>,
     <<<<"n","o","r","t","h">>, <<"n">>>>,
     <<<<"s","o","u","t","h">>, <<"s">>>>,
     <<<<"e","a","s","t">>, <<"e">>>>,
     <<<<"w","e","s","t">>, <<"w">>>>,
     <<<<"n","o","r","t","h","e","a","s","t">>, <<"n","e">>>>,
     <<<<"n","o","r","t","h","w","e","s","t">>, <<"n","w">>>>,
     <<<<"s","o","u","t","h","e","a","s","t">>, <<"s","e">>>>,
     <<<<"s","o","u","t","h","w","e","s","t">>, <<"s","w">>>> >>

RECURSIVE ApplyReplacements(_, _)
ApplyReplacements(s, k) ==
  IF k > Len(replacements) THEN s
  ELSE ApplyReplacements(Replace(s, replacements[k][1], replacements[k][2]), k + 1)

normalize_address(address) ==
  IF ~IsStr(address) THEN <<>>
  ELSE JoinSplit(KeepAlnumSpace(ApplyReplacements(Lower(address), 1)))

(***************************************************************************)
(* rapidfuzz fuzz.ratio: 100 * (1 - indel(a, b) / (len a + len b)), where  *)
(* indel(a, b) = len a + len b - 2 * LCS(a, b); 100 for two empty strings. *)
(* The ratio is the exact fraction num / den (den = 0: the ratio is 100).  *)
(***************************************************************************)
Max2(x, y) == IF x >= y THEN x ELSE y

RECURSIVE LcsNextRow(_, _, _, _)
LcsNextRow(c, b, prev, acc) ==
  LET j == Len(acc) IN
  IF j > Len(b) THEN acc
  ELSE LcsNextRow(c, b, prev,
         Append(acc, IF c = b[j] THEN prev[j] + 1
                     ELSE Max2(prev[j + 1], acc[j])))

RECURSIVE LcsRows(_, _, _, _)
LcsRows(a, b, i, prev) ==
  IF i > Len(a) THEN prev[Len(b) + 1]
  ELSE LET row == LcsNextRow(a[i], b, prev, <<0>>) IN
       IF Len(row) = Len(b) + 1 THEN LcsRows(a, b, i + 1, row) ELSE 0

\* length of a longest common subsequence
Lcs(a, b) == LcsRows(a, b, 1, [j \in 1..(Len(b) + 1) |-> 0])

fuzz_ratio(a, b) == [num |-> 200 * Lcs(a, b), den |-> Len(a) + Len(b)]

\* ratio >= t
RatioGE(r, t) == IF r.den = 0 THEN 100 >= t ELSE r.num >= t * r.den

\* ratio > t
RatioGT(r, t) == IF r.den = 0 THEN 100 > t ELSE r.num > t * r.den

(***************************************************************************)
(* MatchAnalyzer: thresholds, weights and flags.                           *)
(***************************************************************************)
name_match_threshold == 90

address_match_threshold == 90

email_match_weight == 50

name_match_weight == 35

address_match_weight == 15

HighConfidenceScore == 95

MediumConfidenceScore == 70

LowConfidenceScore == 50

MatchFlags ==
  {"ADDRESS_MISMATCH", "MULTIPLE_PROPERTIES", "ADDRESS_FORMAT_DIFF",
   "NAME_MISMATCH", "MULTIPLE_RESIDENTS", "NAME_ORDER_SWAP", "COMPANY_RECORD",
   "HOUSEHOLD_COMPOSITION_CHANGE", "PARTIAL_HOUSEHOLD_MATCH",
   "NAME_COUNT_CHANGE", "COMMON_MEMBER_PRESENT",
   "EMAIL_CHECK_NEEDED", "EMAIL_PRESERVED", "MULTIPLE_EMAILS", "NO_EMAILS",
   "NEW_RECORD", "RECORD_REMOVED",
   "HIGH_CONFIDENCE_MATCH", "MEDIUM_CONFIDENCE_MATCH", "LOW_CONFIDENCE_MATCH",
   "POTENTIAL_DUPLICATE"}

\* the elements of a sequence
Range(q) == {q[k] : k \in 1..Len(q)}

\* {name.strip().lower() for name in names.split('&')}
MemberSet(names) == {Lower(Strip(t)) : t \in Range(Split(names, "&"))}

\* the names compared as they are written
compare_household_members_raw(excel_names, hoa_names) ==
  LET excel_set == Range(Split(excel_names, "&"))
      hoa_set == Range(Split(hoa_names, "&"))
  IN [common |-> excel_set \cap hoa_set,
      excel_only |-> excel_set \ hoa_set,
      hoa_only |-> hoa_set \ excel_set]

\* common, excel_only, hoa_only
compare_household_members(excel_names, hoa_names) ==
  LET excel_set == MemberSet(excel_names)
      hoa_set == MemberSet(hoa_names)
  IN [common |-> excel_set \cap hoa_set,
      excel_only |-> excel_set \ hoa_set,
      hoa_only |-> hoa_set \ excel_set]

\* any(email.lower() == excel_email.lower() for email in hoa_emails if email)
AnyEmailEqual(excel_email, hoa_emails) ==
  \E k \in 1..Len(hoa_emails) :
    /\ Truthy(hoa_emails[k])
    /\ Lower(hoa_emails[k]) = Lower(excel_email)

\* excel_email.lower() on a float raises AttributeError (line 230)
EmailFlagsRaise(excel_email, hoa_emails) ==
  ~IsStr(excel_email) /\ hoa_emails # <<>>

\* without the two early returns
evaluate_email_flags_noreturn(excel_email, hoa_emails) ==
  (IF ~Truthy(excel_email) /\ hoa_emails = <<>> THEN {"NO_EMAILS"} ELSE {})
  \cup (IF Truthy(excel_email) /\ hoa_emails = <<>> THEN {"EMAIL_PRESERVED"} ELSE {})
  \cup (IF Len(hoa_emails) > 1 THEN {"MULTIPLE_EMAILS"} ELSE {})
  \cup (IF Truthy(excel_email) /\ ~AnyEmailEqual(excel_email, hoa_emails)
        THEN {"EMAIL_CHECK_NEEDED"} ELSE {})

evaluate_email_flags(excel_email, hoa_emails) ==
  IF ~Truthy(excel_email) /\ hoa_emails = <<>> THEN {"NO_EMAILS"}
  ELSE IF Truthy(excel_email) /\ hoa_emails = <<>> THEN {"EMAIL_PRESERVED"}
  ELSE (IF Len(hoa_emails) > 1 THEN {"MULTIPLE_EMAILS"} ELSE {})
       \cup (IF Truthy(excel_email) /\ ~AnyEmailEqual(excel_email, hoa_emails)
             THEN {"EMAIL_CHECK_NEEDED"} ELSE {})

\* f"{first} {last}".strip()
FullName(first, last) == Strip(first \o <<" ">> \o last)

HouseholdFlags(excel_full, hoa_full) ==
  IF Contains(excel_full, <<"&">>) \/ Contains(hoa_full, <<"&">>)
  THEN LET m == compare_household_members(excel_full, hoa_full)
           differ == m.excel_only # {} \/ m.hoa_only # {}
       IN (IF m.common # {} THEN {"COMMON_MEMBER_PRESENT"} ELSE {})
          \cup (IF differ THEN {"PARTIAL_HOUSEHOLD_MATCH"} ELSE {})
          \cup (IF Len(Split(excel_full, "&")) # Len(Split(hoa_full, "&"))
                THEN {"NAME_COUNT_CHANGE"} ELSE {})
          \cup (IF m.common # {} /\ differ
                THEN {"HOUSEHOLD_COMPOSITION_CHANGE"} ELSE {})
  ELSE {}

LastNameFlags(excel_last, hoa_first, hoa_last) ==
  IF Truthy(excel_last) /\ Truthy(hoa_last)
     /\ ~RatioGE(fuzz_ratio(Lower(excel_last), Lower(hoa_last)), name_match_threshold)
  THEN IF RatioGT(fuzz_ratio(Lower(excel_last), Lower(hoa_first)), name_match_threshold)
       THEN {"NAME_ORDER_SWAP"}
       ELSE {"NAME_MISMATCH"}
  ELSE {}

\* evaluate_name_flags without the return of line 243
evaluate_name_flags_noreturn(excel_record, hoa_record) ==
  (IF Get(hoa_record, "Is_Company", FALSE) THEN {"COMPANY_RECORD"} ELSE {})
  \cup HouseholdFlags(FullName(excel_record.First_Name, excel_record.Last_Name),
                      FullName(hoa_record.First_Name, hoa_record.Last_Name))
  \cup LastNameFlags(excel_record.Last_Name, hoa_record.First_Name,
                     hoa_record.Last_Name)

evaluate_name_flags(excel_record, hoa_record) ==
  IF Get(hoa_record, "Is_Company", FALSE) THEN {"COMPANY_RECORD"}
  ELSE HouseholdFlags(FullName(excel_record.First_Name, excel_record.Last_Name),
                      FullName(hoa_record.First_Name, hoa_record.Last_Name))
       \cup LastNameFlags(excel_record.Last_Name, hoa_record.First_Name,
                          hoa_record.Last_Name)

\* f"{Street}\n{City}, {StateZip}", each read with .get(column, '')
ExcelAddr(excel_record) ==
  Get(excel_record, "Street", <<>>) \o <<"\n">>
    \o Get(excel_record, "City", <<>>) \o <<",", " ">>
    \o Get(excel_record, "StateZip", <<>>)

\* hoa_record.get('Full Mailing Address', '')
HoaAddr(hoa_record) == Get(hoa_record, "Full_Mailing_Address", <<>>)

\* hoa_addr.strip() on a float raises AttributeError (line 290)
AddressFlagsRaise(excel_record, hoa_record) ==
  /\ Strip(ExcelAddr(excel_record)) # <<>>
  /\ ~IsStr(HoaAddr(hoa_record))

\* evaluate_address_flags without the ratio test of line 301
evaluate_address_flags_noratio(excel_record, hoa_record) ==
  LET excel_addr == ExcelAddr(excel_record)
      hoa_addr == HoaAddr(hoa_record)
  IN IF Strip(excel_addr) = <<>> \/ Strip(hoa_addr) = <<>> THEN {}
     ELSE (IF normalize_address(excel_addr) # normalize_address(hoa_addr)
           THEN {"ADDRESS_MISMATCH"} ELSE {})
          \cup (IF hoa_record.Property_Street # hoa_record.Mailing_Street
                THEN {"MULTIPLE_PROPERTIES"} ELSE {})

evaluate_address_flags(excel_record, hoa_record) ==
  LET excel_addr == ExcelAddr(excel_record)
      hoa_addr == HoaAddr(hoa_record)
      excel_norm == normalize_address(excel_addr)
      hoa_norm == normalize_address(hoa_addr)
  IN IF Strip(excel_addr) = <<>> \/ Strip(hoa_addr) = <<>> THEN {}
     ELSE (IF excel_norm # hoa_norm
           THEN IF RatioGE(fuzz_ratio(excel_norm, hoa_norm), address_match_threshold)
                THEN {"ADDRESS_FORMAT_DIFF"}
                ELSE {"ADDRESS_MISMATCH"}
           ELSE {})
          \cup (IF hoa_record.Property_Street # hoa_record.Mailing_Street
                THEN {"MULTIPLE_PROPERTIES"} ELSE {})

(***************************************************************************)
(* MatchAnalyzer.calculate_match_score                                     *)
(***************************************************************************)
EmailMatch(excel_record, hoa_record) ==
  /\ Truthy(excel_record.Email)
  /\ hoa_record.Email # <<>>
  /\ AnyEmailEqual(excel_record.Email, hoa_record.Email)

\* the last names taken to match whenever both are given
LastNameMatch_any(excel_record, hoa_record) ==
  /\ Truthy(excel_record.Last_Name)
  /\ Truthy(hoa_record.Last_Name)

LastNameMatch(excel_record, hoa_record) ==
  /\ Truthy(excel_record.Last_Name)
  /\ Truthy(hoa_record.Last_Name)
  /\ RatioGE(fuzz_ratio(Lower(excel_record.Last_Name), Lower(hoa_record.Last_Name)),
             name_match_threshold)

\* the test of hoa_addr left out
AddressMatch_noguard(excel_record, hoa_record) ==
  RatioGE(fuzz_ratio(normalize_address(ExcelAddr(excel_record)),
                     normalize_address(HoaAddr(hoa_record))),
          address_match_threshold)

AddressMatch(excel_record, hoa_record) ==
  /\ Truthy(ExcelAddr(excel_record))
  /\ Truthy(HoaAddr(hoa_record))
  /\ RatioGE(fuzz_ratio(normalize_address(ExcelAddr(excel_record)),
                        normalize_address(HoaAddr(hoa_record))),
             address_match_threshold)

\* >= in place of > for the low confidence flag
ConfidenceFlags_inclusive(score) ==
  IF score >= HighConfidenceScore THEN {"HIGH_CONFIDENCE_MATCH"}
  ELSE IF score >= MediumConfidenceScore THEN {"MEDIUM_CONFIDENCE_MATCH"}
  ELSE IF score >= LowConfidenceScore THEN {"LOW_CONFIDENCE_MATCH"}
  ELSE {}

ConfidenceFlags(score) ==
  IF score >= HighConfidenceScore THEN {"HIGH_CONFIDENCE_MATCH"}
  ELSE IF score >= MediumConfidenceScore THEN {"MEDIUM_CONFIDENCE_MATCH"}
  ELSE IF score > LowConfidenceScore THEN {"LOW_CONFIDENCE_MATCH"}
  ELSE {}

\* whether the call raises instead of returning
CalculateRaises(excel_record, hoa_record) ==
  \/ EmailFlagsRaise(excel_record.Email, hoa_record.Email)
  \/ AddressFlagsRaise(excel_record, hoa_record)

\* match_details['address_match'] never set
calculate_match_score_stale(excel_record, hoa_record) ==
  LET email_match == EmailMatch(excel_record, hoa_record)
      last_name_match == LastNameMatch(excel_record, hoa_record)
      address_match == AddressMatch(excel_record, hoa_record)
      score == (IF email_match THEN email_match_weight ELSE 0)
               + (IF last_name_match THEN name_match_weight ELSE 0)
               + (IF address_match THEN address_match_weight ELSE 0)
  IN [score |-> score,
      match_details |-> [email_match |-> email_match,
                         last_name_match |-> last_name_match,
                         address_match |-> FALSE],
      flags |-> ConfidenceFlags(score)]

\* score, match_details, flags
calculate_match_score(excel_record, hoa_record) ==
  LET email_match == EmailMatch(excel_record, hoa_record)
      last_name_match == LastNameMatch(excel_record, hoa_record)
      address_match == AddressMatch(excel_record, hoa_record)
      score == (IF email_match THEN email_match_weight ELSE 0)
               + (IF last_name_match THEN name_match_weight ELSE 0)
               + (IF address_match THEN address_match_weight ELSE 0)
  IN [score |-> score,
      match_details |-> [email_match |-> email_match,
                         last_name_match |-> last_name_match,
                         address_match |-> address_match],
      flags |-> evaluate_email_flags(excel_record.Email, hoa_record.Email)
                \cup evaluate_name_flags(excel_record, hoa_record)
                \cup evaluate_address_flags(excel_record, hoa_record)
                \cup ConfidenceFlags(score)]

(***************************************************************************)
(* Input records.  An owner row (Input A) and a household row (Input B)    *)
(* carry the fields the engine reads; a household's other address columns  *)
(* are only copied to the output.                                          *)
(***************************************************************************)
Empty == <<>>

Email_ax == <<"a","@","x">>

Email_Ax == <<"A","@","x">>

Email_bx == <<"b","@","x">>

John == <<"J","o","h","n">>

Doe == <<"D","o","e">>

Richardson == <<"R","i","c","h","a","r","d","s","o","n">>

richardsen == <<"r","i","c","h","a","r","d","s","e","n">>

Street_1East == <<"1"," ","E","a","s","t">>

Street_1Oak == <<"1"," ","O","a","k"," ","S","t","r","e","e","t">>

Mailing_1E == <<"1"," ","E","\n","B",","," ","C">>

Mailing_1Oak == <<"1"," ","O","a","k"," ","S","t","\n","B",","," ","D">>

Mailing_Comma == <<",">>

\* the three address columns of an owner row
OwnerAddresses ==
  { [Street |-> Empty, City |-> Empty, StateZip |-> Empty],
    [Street |-> Street_1East, City |-> <<"B">>, StateZip |-> <<"C">>],
    [Street |-> Street_1Oak, City |-> <<"B">>, StateZip |-> <<"C">>] }

Owner(first, last, email, addr) ==
  [First_Name |-> first, Last_Name |-> last, Email |-> email,
   Street |-> addr.Street, City |-> addr.City, StateZip |-> addr.StateZip]

Household(first, last, emails, mailing, company, people) ==
  [First_Name |-> first, Last_Name |-> last, Email |-> emails,
   Property_Street |-> <<"1">>, Mailing_Street |-> <<"1">>,
   Full_Mailing_Address |-> mailing, Is_Company |-> company,
   Number_of_Unique_People |-> people]

\* every pair the scorer is checked on
OwnerDomain ==
  { Owner(John, last, email, addr) :
      last \in {Empty, Doe, Richardson, richardsen},
      email \in {Empty, Email_ax, Email_Ax, NaN},
      addr \in OwnerAddresses }

HoaDomain ==
  { Household(John, last, emails, mailing, company, 1) :
      last \in {Empty, Doe, Richardson},
      emails \in {Empty, <<Email_ax>>, <<Email_bx, Email_Ax>>},
      mailing \in {Empty, NaN, Mailing_1E, Mailing_1Oak, Mailing_Comma},
      company \in BOOLEAN }

Addr_None == [Street |-> Empty, City |-> Empty, StateZip |-> Empty]

Addr_1East == [Street |-> Street_1East, City |-> <<"B">>, StateZip |-> <<"C">>]

\* the rows match_records is run on
OwnerPool ==
  { Owner(John, Doe, Email_ax, Addr_1East),
    Owner(John, Doe, Email_ax, Addr_None),
    Owner(John, Richardson, Email_Ax, Addr_None),
    Owner(John, Doe, Email_bx, Addr_None) }

HoaPool ==
  { Household(John, Doe, <<Email_ax>>, Mailing_1E, FALSE, 1),
    Household(John, Doe, <<Email_bx, Email_ax>>, Mailing_1E, FALSE, 2),
    Household(John, Richardson, <<Email_bx, Email_Ax>>, NaN, FALSE, 1) }

RECURSIVE SeqsOfLen(_, _)
SeqsOfLen(pool, n) ==
  IF n = 0 THEN {<<>>}
  ELSE {Append(q, x) : q \in SeqsOfLen(pool, n - 1), x \in pool}

SeqsUpTo(pool, n) == UNION {SeqsOfLen(pool, k) : k \in 0..n}

(***************************************************************************)
(* match_records.  A DataFrame is the sequence of its rows and a row's     *)
(* index label is its position.  A result row stands for its Excel_* and   *)
(* HOA_* columns by the label of the input row they are copied from        *)
(* (0: the columns are None).                                              *)
(***************************************************************************)
VARIABLES
  excel_df,               \* the owner rows, in their original order
  hoa_df,                 \* the household rows, in their original order
  hoa_order,              \* hoa_df after sort_values: its labels in scan order
  pc,                     \* the position in match_records
  idx,                    \* the owner row of the outer loop
  pos,                    \* the position of the inner loop in hoa_order
  best_score,
  best_hoa_idx,           \* 0: best_match is None
  best_match_details,
  best_flags,
  matched_hoa_indices,
  matched_excel_indices,
  results,
  scored,                 \* the last call of calculate_match_score, if any
  errors,                 \* the pairs whose comparison was logged as an error
  analysis_summary,       \* what analyze_matches returned, if called
  raw_df,                 \* the frame of raw contacts handed to condense_records
  condensed_records,      \* the list condense_records builds
  max_retries,            \* get_member_address: its parameter
  initial_delay,          \* get_member_address: its parameter
  attempt,                \* get_member_address: the loop variable
  responses,              \* the outcome of each requests.get so far
  slept,                  \* the argument of each time.sleep so far
  fetch_result            \* <<>> until get_member_address returns, then <<value>>

fetch_vars ==
  <<max_retries, initial_delay, attempt, responses, slept, fetch_result>>

\* get_member_address is not running
NotFetching ==
  /\ max_retries = 0
  /\ initial_delay = 0
  /\ attempt = 0
  /\ responses = <<>>
  /\ slept = <<>>
  /\ fetch_result = <<>>

vars ==
  <<excel_df, hoa_df, hoa_order, pc, idx, pos, best_score, best_hoa_idx,
    best_match_details, best_flags, matched_hoa_indices,
    matched_excel_indices, results, scored, errors, analysis_summary,
    raw_df, condensed_records, fetch_vars>>

NoDetails ==
  [email_match |-> FALSE, last_name_match |-> FALSE, address_match |-> FALSE]

MatchThreshold == 50

ExactThreshold == 100

InitWith(owners, households, start) ==
  /\ excel_df = owners
  /\ hoa_df = households
  /\ hoa_order = <<>>
  /\ pc = start
  /\ idx = 0
  /\ pos = 0
  /\ best_score = 0
  /\ best_hoa_idx = 0
  /\ best_match_details = NoDetails
  /\ best_flags = {}
  /\ matched_hoa_indices = {}
  /\ matched_excel_indices = {}
  /\ results = <<>>
  /\ scored = <<>>
  /\ errors = {}
  /\ analysis_summary = <<>>
  /\ raw_df = <<>>
  /\ condensed_records = <<>>
  /\ NotFetching

Init ==
  \E owners \in SeqsUpTo(OwnerPool, MaxOwners),
     households \in SeqsUpTo(HoaPool, MaxHouseholds) :
    InitWith(owners, households, "sort")

\* the orders hoa_df.sort_values('Number of Unique People') may leave the labels in: kind defaults
\* to 'quicksort', which is not stable, so rows with equal keys come in any order
PeopleKey(row) == row.Number_of_Unique_People

sort_values(df) ==
  { p \in [1..Len(df) -> 1..Len(df)] :
      /\ \A a, b \in 1..Len(df) : a # b => p[a] # p[b]
      /\ \A a, b \in 1..Len(df) :
           a < b => PeopleKey(df[p[a]]) <= PeopleKey(df[p[b]]) }

\* the head of the outer loop: the next owner row, or the end of the first pass
BeginOwner(k) ==
  IF k <= Len(excel_df)
  THEN /\ idx' = k
       /\ pos' = 1
       /\ best_score' = 0
       /\ best_hoa_idx' = 0
       /\ best_match_details' = NoDetails
       /\ best_flags' = {}
       /\ pc' = "scan"
  ELSE /\ pc' = "unmatched_excel"
       /\ UNCHANGED <<idx, pos, best_score, best_hoa_idx, best_match_details,
                      best_flags>>

\* whether every row of the frame has the column (a frame without rows is
\* taken to have all its columns)
HasColumn(df, column) == \A k \in 1..Len(df) : column \in DOMAIN df[k]

\* the frame without one column
DropColumn(df, column) ==
  [k \in 1..Len(df) |-> [f \in (DOMAIN df[k]) \ {column} |-> df[k][f]]]

SortHoa ==
  /\ pc = "sort"
  /\ HasColumn(hoa_df, "Number_of_Unique_People")
  /\ hoa_order' \in sort_values(hoa_df)
  /\ BeginOwner(1)
  /\ UNCHANGED <<excel_df, hoa_df, matched_hoa_indices, matched_excel_indices,
                 results, scored, errors, analysis_summary,
                 raw_df, condensed_records, fetch_vars>>

Scanning == pc = "scan" /\ pos <= Len(hoa_order)

\* the check of the claimed set left out
IsClaimed_never(hoa_idx) == FALSE

\* if hoa_idx in matched_hoa_indices: continue
IsClaimed(hoa_idx) == hoa_idx \in matched_hoa_indices

\* if score > best_score
\* the first household scanned is kept whatever the later ones score
Improves_first(score) == best_hoa_idx = 0

Improves(score) == score > best_score

SkipClaimed ==
  /\ Scanning
  /\ IsClaimed(hoa_order[pos])
  /\ pos' = pos + 1
  /\ UNCHANGED <<excel_df, hoa_df, hoa_order, pc, idx, best_score, best_hoa_idx,
                 best_match_details, best_flags, matched_hoa_indices,
                 matched_excel_indices, results, scored, errors,
                 analysis_summary,
                 raw_df, condensed_records, fetch_vars>>

Compare ==
  /\ Scanning
  /\ ~IsClaimed(hoa_order[pos])
  /\ ~CalculateRaises(excel_df[idx], hoa_df[hoa_order[pos]])
  /\ \E r \in {calculate_match_score(excel_df[idx], hoa_df[hoa_order[pos]])} :
       /\ scored' = <<[excel |-> excel_df[idx], hoa |-> hoa_df[hoa_order[pos]],
                       score |-> r.score, match_details |-> r.match_details,
                       flags |-> r.flags]>>
       /\ IF Improves(r.score)
          THEN /\ best_score' = r.score
               /\ best_hoa_idx' = hoa_order[pos]
               /\ best_match_details' = r.match_details
               /\ best_flags' = r.flags
          ELSE UNCHANGED <<best_score, best_hoa_idx, best_match_details,
                           best_flags>>
  /\ pos' = pos + 1
  /\ UNCHANGED <<excel_df, hoa_df, hoa_order, pc, idx, matched_hoa_indices,
                 matched_excel_indices, results, errors, analysis_summary,
                 raw_df, condensed_records, fetch_vars>>

\* the error ends the run instead of the comparison
CompareError_aborts ==
  /\ Scanning
  /\ ~IsClaimed(hoa_order[pos])
  /\ CalculateRaises(excel_df[idx], hoa_df[hoa_order[pos]])
  /\ errors' = errors \cup {<<idx, hoa_order[pos]>>}
  /\ pc' = "raised"
  /\ UNCHANGED <<excel_df, hoa_df, hoa_order, idx, pos, best_score, best_hoa_idx,
                 best_match_details, best_flags, matched_hoa_indices,
                 matched_excel_indices, results, scored, analysis_summary,
                 raw_df, condensed_records, fetch_vars>>

\* except Exception: print ...; continue
CompareError ==
  /\ Scanning
  /\ ~IsClaimed(hoa_order[pos])
  /\ CalculateRaises(excel_df[idx], hoa_df[hoa_order[pos]])
  /\ errors' = errors \cup {<<idx, hoa_order[pos]>>}
  /\ pos' = pos + 1
  /\ UNCHANGED <<excel_df, hoa_df, hoa_order, pc, idx, best_score, best_hoa_idx,
                 best_match_details, best_flags, matched_hoa_indices,
                 matched_excel_indices, results, scored, analysis_summary,
                 raw_df, condensed_records, fetch_vars>>

ScanDone == pc = "scan" /\ pos > Len(hoa_order)

\* > in place of >=
IsGoodMatch_strict == best_score > MatchThreshold /\ best_hoa_idx # 0

\* if best_score >= 50 and best_match is not None
IsGoodMatch == best_score >= MatchThreshold /\ best_hoa_idx # 0

\* > in place of >=
MatchType_strict(score) == IF score > ExactThreshold THEN "Exact" ELSE "Fuzzy"

MatchType(score) == IF score >= ExactThreshold THEN "Exact" ELSE "Fuzzy"

MatchedRow ==
  [Excel_idx |-> idx, HOA_idx |-> best_hoa_idx, Match_Score |-> best_score,
   Email_Match |-> best_match_details.email_match,
   Last_Name_Match |-> best_match_details.last_name_match,
   Address_Match |-> best_match_details.address_match,
   Match_Type |-> MatchType(best_score), Match_Flags |-> best_flags]

\* the claimed set replaced by the chosen household instead of extended
CommitMatch_reset ==
  /\ ScanDone
  /\ IsGoodMatch
  /\ results' = Append(results, MatchedRow)
  /\ matched_excel_indices' = matched_excel_indices \cup {idx}
  /\ matched_hoa_indices' = {best_hoa_idx}
  /\ BeginOwner(idx + 1)
  /\ UNCHANGED <<excel_df, hoa_df, hoa_order, scored, errors, analysis_summary,
                 raw_df, condensed_records, fetch_vars>>

CommitMatch ==
  /\ ScanDone
  /\ IsGoodMatch
  /\ results' = Append(results, MatchedRow)
  /\ matched_excel_indices' = matched_excel_indices \cup {idx}
  /\ matched_hoa_indices' = matched_hoa_indices \cup {best_hoa_idx}
  /\ BeginOwner(idx + 1)
  /\ UNCHANGED <<excel_df, hoa_df, hoa_order, scored, errors, analysis_summary,
                 raw_df, condensed_records, fetch_vars>>

LeaveUnmatched ==
  /\ ScanDone
  /\ ~IsGoodMatch
  /\ BeginOwner(idx + 1)
  /\ UNCHANGED <<excel_df, hoa_df, hoa_order, matched_hoa_indices,
                 matched_excel_indices, results, scored, errors,
                 analysis_summary,
                 raw_df, condensed_records, fetch_vars>>

UnmatchedRow(excel_idx, hoa_idx, flag) ==
  [Excel_idx |-> excel_idx, HOA_idx |-> hoa_idx, Match_Score |-> 0,
   Email_Match |-> FALSE, Last_Name_Match |-> FALSE, Address_Match |-> FALSE,
   Match_Type |-> "No Match", Match_Flags |-> {flag}]

\* the flag of the other loop
RECURSIVE UnmatchedExcelRows_wrongflag(_)
UnmatchedExcelRows_wrongflag(k) ==
  IF k > Len(excel_df) THEN <<>>
  ELSE (IF k \notin matched_excel_indices
        THEN <<UnmatchedRow(k, 0, "NEW_RECORD")>> ELSE <<>>)
       \o UnmatchedExcelRows_wrongflag(k + 1)

RECURSIVE UnmatchedExcelRows(_)
UnmatchedExcelRows(k) ==
  IF k > Len(excel_df) THEN <<>>
  ELSE (IF k \notin matched_excel_indices
        THEN <<UnmatchedRow(k, 0, "RECORD_REMOVED")>> ELSE <<>>)
       \o UnmatchedExcelRows(k + 1)

\* households told apart by their fields instead of their labels
RECURSIVE UnmatchedHoaRows_byrecord(_)
UnmatchedHoaRows_byrecord(k) ==
  IF k > Len(hoa_order) THEN <<>>
  ELSE (IF /\ hoa_order[k] \notin matched_hoa_indices
           /\ \A j \in 1..(k - 1) : hoa_df[hoa_order[j]] # hoa_df[hoa_order[k]]
        THEN <<UnmatchedRow(0, hoa_order[k], "NEW_RECORD")>> ELSE <<>>)
       \o UnmatchedHoaRows_byrecord(k + 1)

RECURSIVE UnmatchedHoaRows(_)
UnmatchedHoaRows(k) ==
  IF k > Len(hoa_order) THEN <<>>
  ELSE (IF hoa_order[k] \notin matched_hoa_indices
        THEN <<UnmatchedRow(0, hoa_order[k], "NEW_RECORD")>> ELSE <<>>)
       \o UnmatchedHoaRows(k + 1)

AddUnmatchedExcel ==
  /\ pc = "unmatched_excel"
  /\ results' = results \o UnmatchedExcelRows(1)
  /\ pc' = "unmatched_hoa"
  /\ UNCHANGED <<excel_df, hoa_df, hoa_order, idx, pos, best_score, best_hoa_idx,
                 best_match_details, best_flags, matched_hoa_indices,
                 matched_excel_indices, scored, errors, analysis_summary,
                 raw_df, condensed_records, fetch_vars>>

AddUnmatchedHoa ==
  /\ pc = "unmatched_hoa"
  /\ results' = results \o UnmatchedHoaRows(1)
  /\ pc' = "sort_results"
  /\ UNCHANGED <<excel_df, hoa_df, hoa_order, idx, pos, best_score, best_hoa_idx,
                 best_match_details, best_flags, matched_hoa_indices,
                 matched_excel_indices, scored, errors, analysis_summary,
                 raw_df, condensed_records, fetch_vars>>

\* the Match_Type texts in ascending (alphabetical) order
TypeRank(t) == CHOOSE k \in 1..3 : <<"Exact", "Fuzzy", "No Match">>[k] = t

\* ['Match_Score', 'Match_Type'], ascending=[False, True]
RowBefore(a, b) ==
  \/ a.Match_Score > b.Match_Score
  \/ a.Match_Score = b.Match_Score /\ TypeRank(a.Match_Type) < TypeRank(b.Match_Type)

RECURSIVE InsertRow(_, _)
InsertRow(sorted, row) ==
  IF sorted = <<>> THEN <<row>>
  ELSE IF RowBefore(row, Head(sorted))
       THEN <<row>> \o sorted
       ELSE <<Head(sorted)>> \o InsertRow(Tail(sorted), row)

RECURSIVE SortRows(_, _)
SortRows(rows, k) ==
  IF k = 0 THEN <<>> ELSE InsertRow(SortRows(rows, k - 1), rows[k])

\* the rows left in the order they were appended
sort_results_unsorted(rows) == rows

\* sort_values on two columns: a lexsort, which keeps equal rows in order
sort_results(rows) == SortRows(rows, Len(rows))

\* pd.DataFrame([]) has no columns: sort_values raises KeyError('Match_Score'),
\* which match_records prints and raises again
SortResultsRaises == results = <<>>

SortResults ==
  /\ pc = "sort_results"
  /\ IF SortResultsRaises
     THEN pc' = "raised" /\ UNCHANGED results
     ELSE pc' = "done" /\ results' = sort_results(results)
  /\ UNCHANGED <<excel_df, hoa_df, hoa_order, idx, pos, best_score, best_hoa_idx,
                 best_match_details, best_flags, matched_hoa_indices,
                 matched_excel_indices, scored, errors, analysis_summary,
                 raw_df, condensed_records, fetch_vars>>

(***************************************************************************)
(* analyze_matches                                                         *)
(***************************************************************************)
CountType(match_df, t) ==
  Cardinality({k \in 1..Len(match_df) : match_df[k].Match_Type = t})

\* without the test for an empty frame
analyze_matches_nocheck(match_df) ==
  [text |-> "Matching Analysis:", total |-> Len(match_df),
   exact |-> CountType(match_df, "Exact"),
   fuzzy |-> CountType(match_df, "Fuzzy"),
   no_match |-> CountType(match_df, "No Match")]

analyze_matches(match_df) ==
  IF Len(match_df) = 0
  THEN [text |-> "No records to analyze.", total |-> 0, exact |-> 0,
        fuzzy |-> 0, no_match |-> 0]
  ELSE [text |-> "Matching Analysis:", total |-> Len(match_df),
        exact |-> CountType(match_df, "Exact"),
        fuzzy |-> CountType(match_df, "Fuzzy"),
        no_match |-> CountType(match_df, "No Match")]

Analyze ==
  /\ pc = "done"
  /\ analysis_summary' = <<analyze_matches(results)>>
  /\ pc' = "analyzed"
  /\ UNCHANGED <<excel_df, hoa_df, hoa_order, idx, pos, best_score, best_hoa_idx,
                 best_match_details, best_flags, matched_hoa_indices,
                 matched_excel_indices, results, scored, errors, raw_df,
                 condensed_records, fetch_vars>>

Next ==
  \/ SortHoa
  \/ SkipClaimed
  \/ Compare
  \/ CompareError
  \/ CommitMatch
  \/ LeaveUnmatched
  \/ AddUnmatchedExcel
  \/ AddUnmatchedHoa
  \/ SortResults
  \/ Analyze

Spec == Init /\ [][Next]_vars

(***************************************************************************)
(* match_records run, and run again, on one owner and one household, with  *)
(* Match_Flags as the list [flag.name for flag in best_flags].  best_flags *)
(* is a set of Enum members, which hash by their name: a str, whose hash   *)
(* changes with the hash seed of the interpreter, and with it the order in *)
(* which the set is iterated.                                              *)
(***************************************************************************)
RECURSIVE FlagLists(_)
FlagLists(flags) ==
  IF flags = {} THEN {<<>>}
  ELSE UNION { {<<f>> \o q : q \in FlagLists(flags \ {f})} : f \in flags }

RowWithFlagList(row, flag_list) == [row EXCEPT !.Match_Flags = flag_list]

\* the frames match_records can return on the one owner and the one household
ReturnedFrames ==
  IF CalculateRaises(excel_df[1], hoa_df[1])
  THEN { << RowWithFlagList(UnmatchedRow(1, 0, "RECORD_REMOVED"), <<"RECORD_REMOVED">>),
            RowWithFlagList(UnmatchedRow(0, 1, "NEW_RECORD"), <<"NEW_RECORD">>) >> }
  ELSE LET r == calculate_match_score(excel_df[1], hoa_df[1])
       IN IF r.score >= MatchThreshold
          THEN { << [Excel_idx |-> 1, HOA_idx |-> 1, Match_Score |-> r.score,
                     Email_Match |-> r.match_details.email_match,
                     Last_Name_Match |-> r.match_details.last_name_match,
                     Address_Match |-> r.match_details.address_match,
                     Match_Type |-> MatchType(r.score),
                     Match_Flags |-> flag_list] >> :
                 flag_list \in FlagLists(r.flags) }
          ELSE { << RowWithFlagList(UnmatchedRow(1, 0, "RECORD_REMOVED"),
                                    <<"RECORD_REMOVED">>),
                    RowWithFlagList(UnmatchedRow(0, 1, "NEW_RECORD"),
                                    <<"NEW_RECORD">>) >> }

InitRuns ==
  \E o \in OwnerPool, h \in HoaDomain : InitWith(<<o>>, <<h>>, "run")

FirstRun ==
  /\ pc = "run"
  /\ \E frames \in {ReturnedFrames} : results' \in frames
  /\ pc' = "ran"
  /\ UNCHANGED <<excel_df, hoa_df, hoa_order, idx, pos, best_score, best_hoa_idx,
                 best_match_details, best_flags, matched_hoa_indices,
                 matched_excel_indices, scored, errors, analysis_summary,
                 raw_df, condensed_records, fetch_vars>>

\* the same inputs handed to match_records once more
SecondRun ==
  /\ pc = "ran"
  /\ \E frames \in {ReturnedFrames} : results' \in frames
  /\ pc' = "ran"
  /\ UNCHANGED <<excel_df, hoa_df, hoa_order, idx, pos, best_score, best_hoa_idx,
                 best_match_details, best_flags, matched_hoa_indices,
                 matched_excel_indices, scored, errors, analysis_summary,
                 raw_df, condensed_records, fetch_vars>>

NextRuns == FirstRun \/ SecondRun

SpecRuns == InitRuns /\ [][NextRuns]_vars

(***************************************************************************)
(* condense_records                                                        *)
(***************************************************************************)
MaxContacts == 2

sanitize_string(s) == IF ~IsStr(s) THEN <<>> ELSE JoinSplit(Strip(Lower(s)))

\* df['group_key']
group_key(row) ==
  sanitize_string(row.Last_Name) \o <<"|">>
    \o sanitize_string(row.Full_Property_Address)

\* the characters of a group key in the order of their code points
CodeOrder ==
  <<" ", "0", "1", "2", "3", "4", "5", "6", "7", "8", "9">> \o LowerLetters
    \o <<"|">>

CharRank(c) == CHOOSE k \in 1..Len(CodeOrder) : CodeOrder[k] = c

\* a < b on str
RECURSIVE StrLess(_, _)
StrLess(a, b) ==
  IF b = <<>> THEN FALSE
  ELSE IF a = <<>> THEN TRUE
  ELSE IF Head(a) = Head(b) THEN StrLess(Tail(a), Tail(b))
  ELSE CharRank(Head(a)) < CharRank(Head(b))

\* rows without a property address left out
GroupKeys_nonblank ==
  {group_key(raw_df[k]) :
     k \in {j \in 1..Len(raw_df) :
              sanitize_string(raw_df[j].Full_Property_Address) # <<>>}}

GroupKeys == {group_key(raw_df[k]) : k \in 1..Len(raw_df)}

\* df.groupby('group_key') yields the groups in ascending order of the key
RECURSIVE SortedKeys(_)
SortedKeys(keys) ==
  IF keys = {} THEN <<>>
  ELSE LET least == CHOOSE a \in keys : \A b \in keys \ {a} : StrLess(a, b)
       IN <<least>> \o SortedKeys(keys \ {least})

\* the rows of one group, in the order of the frame
Group(key) ==
  LET labels == SelectSeq([k \in 1..Len(raw_df) |-> k],
                          LAMBDA k : group_key(raw_df[k]) = key)
  IN [j \in 1..Len(labels) |-> raw_df[labels[j]]]

\* pd.notna
NotNa(x) == x # NaN

\* Series.dropna().unique(): the values that are not NaN, each once, in the
\* order of their first appearance
RECURSIVE DropnaUnique(_, _)
DropnaUnique(values, seen) ==
  IF values = <<>> THEN <<>>
  ELSE IF NotNa(Head(values)) /\ Head(values) \notin seen
       THEN <<Head(values)>> \o DropnaUnique(Tail(values), seen \cup {Head(values)})
       ELSE DropnaUnique(Tail(values), seen)

\* ' & '.join(names)
RECURSIVE JoinNames(_)
JoinNames(names) ==
  IF names = <<>> THEN <<>>
  ELSE IF Len(names) = 1 THEN names[1]
  ELSE names[1] \o <<" ", "&", " ">> \o JoinNames(Tail(names))

\* list(set(...)): the members of the set in the order the set is iterated
RECURSIVE ListsOfSet(_)
ListsOfSet(members) ==
  IF members = {} THEN {<<>>}
  ELSE UNION { {<<x>> \o q : q \in ListsOfSet(members \ {x})} : x \in members }

\* the records the loop body can build for one group
CondensedRecords(group) ==
  IF Len(group) > 1
  THEN LET first_names == DropnaUnique([k \in 1..Len(group) |-> group[k].First_Name], {})
           email_set == {group[k].Email : k \in 1..Len(group)} \ {NaN, <<>>}
       IN { [First_Name |-> JoinNames(first_names),
             Last_Name |-> IF NotNa(group[1].Last_Name) THEN group[1].Last_Name
                           ELSE <<>>,
             Email |-> emails,
             Full_Property_Address |-> group[1].Full_Property_Address,
             Is_Company |-> group[1].Is_Company,
             Number_of_Unique_People |-> Len(first_names),
             Number_of_Unique_Emails |-> Len(emails)] :
            emails \in ListsOfSet(email_set) }
  ELSE LET record == group[1]
           email == IF NotNa(record.Email) /\ Truthy(record.Email)
                    THEN <<record.Email>> ELSE <<>>
       IN { [First_Name |-> IF NotNa(record.First_Name) THEN record.First_Name
                            ELSE <<>>,
             Last_Name |-> IF NotNa(record.Last_Name) THEN record.Last_Name
                           ELSE <<>>,
             Email |-> email,
             Full_Property_Address |-> record.Full_Property_Address,
             Is_Company |-> record.Is_Company,
             Number_of_Unique_People |-> 1,
             Number_of_Unique_Emails |-> Len(email)] }

Al == <<"A","l">>

Bob == <<"B","o","b">>

doe_spaced == <<" ","d","o","e"," ">>

Property_1E == <<"1"," ","E">>

Property_1e == <<"1"," "," ","e">>

RawContact(first, last, email, property) ==
  [First_Name |-> first, Last_Name |-> last, Email |-> email,
   Full_Property_Address |-> property, Is_Company |-> FALSE]

\* the raw contacts condense_records is run on
ContactPool ==
  { RawContact(Bob, Doe, Email_ax, Property_1E),
    RawContact(Al, doe_spaced, Email_bx, Property_1e),
    RawContact(Empty, Doe, Empty, Property_1E),
    RawContact(NaN, NaN, NaN, Property_1E),
    RawContact(Bob, Doe, Email_ax, NaN),
    RawContact(Al, Doe, Email_ax, Empty),
    RawContact(Bob, Richardson, Email_ax, Property_1E) }

InitCondense ==
  /\ raw_df \in SeqsUpTo(ContactPool, MaxContacts)
  /\ condensed_records = <<>>
  /\ NotFetching
  /\ excel_df = <<>>
  /\ hoa_df = <<>>
  /\ hoa_order = <<>>
  /\ pc = "groupby"
  /\ idx = 0
  /\ pos = 0
  /\ best_score = 0
  /\ best_hoa_idx = 0
  /\ best_match_details = NoDetails
  /\ best_flags = {}
  /\ matched_hoa_indices = {}
  /\ matched_excel_indices = {}
  /\ results = <<>>
  /\ scored = <<>>
  /\ errors = {}
  /\ analysis_summary = <<>>

\* one turn of the loop over the groups
CondenseGroup ==
  /\ pc = "groupby"
  /\ Len(condensed_records) < Cardinality(GroupKeys)
  /\ \E condensed_record \in
         CondensedRecords(Group(SortedKeys(GroupKeys)[Len(condensed_records) + 1])) :
       condensed_records' = Append(condensed_records, condensed_record)
  /\ UNCHANGED <<excel_df, hoa_df, hoa_order, pc, idx, pos, best_score,
                 best_hoa_idx, best_match_details, best_flags,
                 matched_hoa_indices, matched_excel_indices, results, scored,
                 errors, analysis_summary, raw_df, fetch_vars>>

\* return condensed_df
CondenseReturn ==
  /\ pc = "groupby"
  /\ Len(condensed_records) = Cardinality(GroupKeys)
  /\ pc' = "condensed"
  /\ UNCHANGED <<excel_df, hoa_df, hoa_order, idx, pos, best_score,
                 best_hoa_idx, best_match_details, best_flags,
                 matched_hoa_indices, matched_excel_indices, results, scored,
                 errors, analysis_summary, raw_df, condensed_records, fetch_vars>>

NextCondense == CondenseGroup \/ CondenseReturn

SpecCondense == InitCondense /\ [][NextCondense]_vars

(***************************************************************************)
(* match_records on frames one of which lacks a column.                    *)
(***************************************************************************)
OwnerColumns == {"Street"}

HoaColumns == {"Full_Mailing_Address", "Number_of_Unique_People"}

InitColumns ==
  \E owners \in SeqsUpTo(OwnerPool, MaxOwners) \ {<<>>},
     households \in SeqsUpTo(HoaPool, MaxHouseholds) \ {<<>>} :
    \/ \E column \in OwnerColumns :
         InitWith(DropColumn(owners, column), households, "sort")
    \/ \E column \in HoaColumns :
         InitWith(owners, DropColumn(households, column), "sort")

\* hoa_df.sort_values('Number of Unique People') raises KeyError, re-raised
\* by the handler of lines 463-466
SortHoaRaises ==
  /\ pc = "sort"
  /\ ~HasColumn(hoa_df, "Number_of_Unique_People")
  /\ pc' = "raised"
  /\ UNCHANGED <<excel_df, hoa_df, hoa_order, idx, pos, best_score, best_hoa_idx,
                 best_match_details, best_flags, matched_hoa_indices,
                 matched_excel_indices, results, scored, errors,
                 analysis_summary,
                 raw_df, condensed_records, fetch_vars>>

NextColumns == Next \/ SortHoaRaises

SpecColumns == InitColumns /\ [][NextColumns]_vars

(***************************************************************************)
(* One call of calculate_match_score on one pair of rows.                  *)
(***************************************************************************)
InitScore ==
  \E o \in OwnerDomain, h \in HoaDomain : InitWith(<<o>>, <<h>>, "pair")

ScorePair ==
  /\ pc = "pair"
  /\ ~CalculateRaises(excel_df[1], hoa_df[1])
  /\ \E r \in {calculate_match_score(excel_df[1], hoa_df[1])} :
       scored' = <<[excel |-> excel_df[1], hoa |-> hoa_df[1],
                    score |-> r.score, match_details |-> r.match_details,
                    flags |-> r.flags]>>
  /\ pc' = "scored"
  /\ UNCHANGED <<excel_df, hoa_df, hoa_order, idx, pos, best_score, best_hoa_idx,
                 best_match_details, best_flags, matched_hoa_indices,
                 matched_excel_indices, results, errors, analysis_summary,
                 raw_df, condensed_records, fetch_vars>>

ScorePairRaises ==
  /\ pc = "pair"
  /\ CalculateRaises(excel_df[1], hoa_df[1])
  /\ pc' = "pair_raised"
  /\ UNCHANGED <<excel_df, hoa_df, hoa_order, idx, pos, best_score, best_hoa_idx,
                 best_match_details, best_flags, matched_hoa_indices,
                 matched_excel_indices, results, scored, errors,
                 analysis_summary,
                 raw_df, condensed_records, fetch_vars>>

NextScore == ScorePair \/ ScorePairRaises

SpecScore == InitScore /\ [][NextScore]_vars

(***************************************************************************)
(* One call of calculate_match_score on a pair of rows that name one or    *)
(* several residents.                                                      *)
(***************************************************************************)
Laura == <<"L","a","u","r","a">>

Rick_Laura == <<"R","i","c","k"," ","&"," ","L","a","u","r","a">>

Bob_Laura == <<"B","o","b"," ","&"," ","L","a","u","r","a">>

laura_Rick == <<"l","a","u","r","a","&","R","i","c","k"," ">>

Laura_Laura == <<"L","a","u","r","a"," ","&"," ","L","a","u","r","a">>

Al_Bob_Laura ==
  <<"A","l"," ","&"," ","B","o","b"," ","&"," ","L","a","u","r","a">>

FirstNames == {Laura, Rick_Laura, Bob_Laura, laura_Rick, Laura_Laura, Al_Bob_Laura}

InitNames ==
  \E excel_first \in FirstNames, hoa_first \in FirstNames,
     excel_last \in {Empty, Doe}, hoa_last \in {Empty, Doe},
     company \in BOOLEAN, mailing \in {Mailing_1E, NaN} :
    InitWith(<<Owner(excel_first, excel_last, Email_ax, Addr_1East)>>,
             <<Household(hoa_first, hoa_last, <<Email_ax>>, mailing, company, 1)>>,
             "pair")

SpecNames == InitNames /\ [][NextScore]_vars

(***************************************************************************)
(* One call of calculate_match_score on a pair of rows whose last names    *)
(* may differ and whose household first name may be the owner's last name  *)
(* or name two people, for a household that is or is not a company.        *)
(***************************************************************************)
InitSwap ==
  \E excel_last \in {Doe, Richardson, richardsen},
     hoa_first \in {John, Doe, Richardson, richardsen, Rick_Laura},
     hoa_last \in {Empty, Doe, Richardson},
     excel_email \in {Email_ax, Email_bx},
     company \in BOOLEAN, mailing \in {Mailing_1E, NaN} :
    InitWith(<<Owner(John, excel_last, excel_email, Addr_1East)>>,
             <<Household(hoa_first, hoa_last, <<Email_ax>>, mailing, company, 1)>>,
             "pair")

SpecSwap == InitSwap /\ [][NextScore]_vars

(***************************************************************************)
(* One call of calculate_match_score on a pair of rows whose addresses may *)
(* be blank, equal, close or apart, for a household whose property street  *)
(* is or is not its mailing street.                                        *)
(***************************************************************************)
Mailing_Blank == <<" ">>

Street_2 == <<"2">>

HouseholdAt(property_street, last, emails, mailing) ==
  [Household(John, last, emails, mailing, FALSE, 1)
     EXCEPT !.Property_Street = property_street]

InitAddress ==
  \E addr \in OwnerAddresses, email \in {Empty, Email_ax},
     property_street \in {<<"1">>, Street_2}, last \in {Doe, Richardson},
     mailing \in {Empty, Mailing_Blank, NaN, Mailing_1E, Mailing_1Oak, Mailing_Comma} :
    InitWith(<<Owner(John, Doe, email, addr)>>,
             <<HouseholdAt(property_street, last, <<Email_ax>>, mailing)>>,
             "pair")

SpecAddress == InitAddress /\ [][NextScore]_vars

(***************************************************************************)
(* get_member_address: up to max_retries requests for one member page,     *)
(* with a wait that doubles after every failed request but the last.       *)
(* A page is taken as the two address blocks extract_address_info finds in *)
(* it; a failed request is one that raises a RequestException.             *)
(***************************************************************************)
MaxRetries == 4

MaxDelay == 2

\* Python's None as an address that was not found
None == <<"None">>

\* Python's None as the value get_member_address returns
ReturnsNone == [value |-> None]

Pages ==
  [property_address : {None, <<"1 E", "B, C">>},
   mailing_address : {None, <<"2 W", "B, C">>}]

\* a page without a mailing block gives the property address for both
extract_address_info(page) ==
  [property_address |-> page.property_address,
   mailing_address |-> IF page.mailing_address = None
                       THEN page.property_address
                       ELSE page.mailing_address]

InitFetch ==
  /\ max_retries \in 0..MaxRetries
  /\ initial_delay \in 0..MaxDelay
  /\ attempt = 0
  /\ responses = <<>>
  /\ slept = <<>>
  /\ fetch_result = <<>>
  /\ pc = "request"
  /\ excel_df = <<>>
  /\ hoa_df = <<>>
  /\ hoa_order = <<>>
  /\ idx = 0
  /\ pos = 0
  /\ best_score = 0
  /\ best_hoa_idx = 0
  /\ best_match_details = NoDetails
  /\ best_flags = {}
  /\ matched_hoa_indices = {}
  /\ matched_excel_indices = {}
  /\ results = <<>>
  /\ scored = <<>>
  /\ errors = {}
  /\ analysis_summary = <<>>
  /\ raw_df = <<>>
  /\ condensed_records = <<>>

match_vars ==
  <<excel_df, hoa_df, hoa_order, idx, pos, best_score, best_hoa_idx,
    best_match_details, best_flags, matched_hoa_indices,
    matched_excel_indices, results, scored, errors, analysis_summary,
    raw_df, condensed_records>>

\* the wait is the same after every failed request
delay_constant(k) == initial_delay

\* delay = initial_delay * (2 ** attempt)
delay(k) == initial_delay * 2^k

\* the request succeeds: extract, time.sleep(1), return address_info
RequestSucceeds ==
  /\ pc = "request"
  /\ attempt < max_retries
  /\ \E page \in Pages :
       /\ responses' = Append(responses, [ok |-> TRUE, page |-> page])
       /\ fetch_result' = <<extract_address_info(page)>>
  /\ slept' = Append(slept, 1)
  /\ pc' = "fetched"
  /\ UNCHANGED <<max_retries, initial_delay, attempt, match_vars>>

\* the request raises a RequestException
RequestFails ==
  /\ pc = "request"
  /\ attempt < max_retries
  /\ responses' = Append(responses, [ok |-> FALSE])
  /\ IF attempt < max_retries - 1
     THEN /\ slept' = Append(slept, delay(attempt))
          /\ attempt' = attempt + 1
          /\ UNCHANGED <<pc, fetch_result>>
     ELSE /\ fetch_result' = <<ReturnsNone>>
          /\ pc' = "fetched"
          /\ UNCHANGED <<slept, attempt>>
  /\ UNCHANGED <<max_retries, initial_delay, match_vars>>

\* range(max_retries) is empty: the function falls off its end
NoAttempt ==
  /\ pc = "request"
  /\ attempt >= max_retries
  /\ fetch_result' = <<ReturnsNone>>
  /\ pc' = "fetched"
  /\ UNCHANGED <<max_retries, initial_delay, attempt, responses, slept,
                 match_vars>>

NextFetch == RequestSucceeds \/ RequestFails \/ NoAttempt

SpecFetch == InitFetch /\ [][NextFetch]_vars

(***************************************************************************)
(* analyze_matches on a frame of result rows, the empty frame included.    *)
(***************************************************************************)
MaxRows == 3

ResultRow(excel_idx, hoa_idx, score, flags) ==
  [Excel_idx |-> excel_idx, HOA_idx |-> hoa_idx, Match_Score |-> score,
   Email_Match |-> score >= 50, Last_Name_Match |-> score >= 85,
   Address_Match |-> score >= 100, Match_Type |-> MatchType(score),
   Match_Flags |-> flags]

RowPool ==
  { ResultRow(1, 1, 100, {"HIGH_CONFIDENCE_MATCH"}),
    ResultRow(1, 1, 85, {"MEDIUM_CONFIDENCE_MATCH"}),
    ResultRow(1, 1, 50, {}),
    UnmatchedRow(1, 0, "RECORD_REMOVED"),
    UnmatchedRow(0, 1, "NEW_RECORD") }

InitAnalyze ==
  /\ results \in {sort_results(rows) : rows \in SeqsUpTo(RowPool, MaxRows)}
  /\ pc = "done"
  /\ excel_df = <<>>
  /\ hoa_df = <<>>
  /\ hoa_order = <<>>
  /\ idx = 0
  /\ pos = 0
  /\ best_score = 0
  /\ best_hoa_idx = 0
  /\ best_match_details = NoDetails
  /\ best_flags = {}
  /\ matched_hoa_indices = {}
  /\ matched_excel_indices = {}
  /\ scored = <<>>
  /\ errors = {}
  /\ analysis_summary = <<>>
  /\ raw_df = <<>>
  /\ condensed_records = <<>>
  /\ NotFetching

NextAnalyze == Analyze

SpecAnalyze == InitAnalyze /\ [][NextAnalyze]_vars

(***************************************************************************)
(* Properties of match_records and calculate_match_score.                  *)
(***************************************************************************)
Returned == pc \in {"done", "analyzed"}

IsMatchedRow(row) == row.Match_Type \in {"Exact", "Fuzzy"}

RowsOfOwner(i) == {k \in 1..Len(results) : results[k].Excel_idx = i}

RowsOfHousehold(h) == {k \in 1..Len(results) : results[k].HOA_idx = h}

\* C1: once match_records has returned, every owner row is in exactly one
\* result row, every household row is in exactly one result row, and no
\* household is in two matched (Exact or Fuzzy) rows.
C1_Conservation ==
  Returned =>
    /\ \A i \in 1..Len(excel_df) : Cardinality(RowsOfOwner(i)) = 1
    /\ \A h \in 1..Len(hoa_df) : Cardinality(RowsOfHousehold(h)) = 1
    /\ \A k1, k2 \in 1..Len(results) :
         /\ IsMatchedRow(results[k1])
         /\ IsMatchedRow(results[k2])
         /\ results[k1].HOA_idx = results[k2].HOA_idx
         => k1 = k2
    /\ \A k \in 1..Len(results) :
         results[k].Excel_idx # 0 \/ results[k].HOA_idx # 0

\* a returned run with a matched row, an owner left over and a household left over
C1_Witness ==
  /\ Returned
  /\ \E k \in 1..Len(results) : IsMatchedRow(results[k])
  /\ \E k \in 1..Len(results) : results[k].HOA_idx = 0
  /\ \E k \in 1..Len(results) : results[k].Excel_idx = 0

ScoreInRange(score, email_match, last_name_match, address_match) ==
  /\ 0 <= score
  /\ score <= 100
  /\ score = 100 => email_match /\ last_name_match /\ address_match

\* C2: every scored pair and every result row has 0 <= score <= 100, and a
\* score of 100 only with email, last name and address all matching.
C2_ScoreRange ==
  /\ \A k \in 1..Len(scored) :
       ScoreInRange(scored[k].score, scored[k].match_details.email_match,
                    scored[k].match_details.last_name_match,
                    scored[k].match_details.address_match)
  /\ \A k \in 1..Len(results) :
       ScoreInRange(results[k].Match_Score, results[k].Email_Match,
                    results[k].Last_Name_Match, results[k].Address_Match)

\* a returned run with a row of score 100, after a pair was scored below 100
C2_Witness ==
  /\ Returned
  /\ \E k \in 1..Len(results) : results[k].Match_Score = 100
  /\ \E k \in 1..Len(scored) : scored[k].score \in 1..99

\* C4: in every result row Match_Type is "Exact" iff score >= 100, "Fuzzy" iff
\* 50 <= score < 100, and "No Match" iff score < 50 and one side is missing.
C4_MatchType ==
  \A k \in 1..Len(results) :
    LET row == results[k] IN
    /\ row.Match_Type \in {"Exact", "Fuzzy", "No Match"}
    /\ row.Match_Type = "Exact" <=> row.Match_Score >= 100
    /\ row.Match_Type = "Fuzzy" <=> (50 <= row.Match_Score /\ row.Match_Score < 100)
    /\ row.Match_Type = "No Match" <=>
         (row.Match_Score < 50 /\ (row.Excel_idx = 0 \/ row.HOA_idx = 0))

\* a returned run with a Fuzzy row of score 50 and a No Match row
C4_Witness ==
  /\ Returned
  /\ \E k \in 1..Len(results) :
       results[k].Match_Type = "Fuzzy" /\ results[k].Match_Score = 50
  /\ \E k \in 1..Len(results) : results[k].Match_Type = "No Match"

\* a str that is not empty
NonEmptyStr(x) == IsStr(x) /\ x # <<>>

Weighted(email_match, last_name_match, address_match) ==
  (IF email_match THEN 50 ELSE 0) + (IF last_name_match THEN 35 ELSE 0)
    + (IF address_match THEN 15 ELSE 0)

\* the owner email equals some household email ignoring case
EmailAmong(excel_record, hoa_record) ==
  \E e \in Range(hoa_record.Email) : Lower(e) = Lower(excel_record.Email)

\* the fuzzy ratio of the two (lower-cased) last names is >= 90
LastNamesClose(excel_record, hoa_record) ==
  RatioGE(fuzz_ratio(Lower(excel_record.Last_Name), Lower(hoa_record.Last_Name)), 90)

\* the fuzzy ratio of the two normalized addresses is >= 90
AddressesClose(excel_record, hoa_record) ==
  RatioGE(fuzz_ratio(normalize_address(ExcelAddr(excel_record)),
                     normalize_address(hoa_record.Full_Mailing_Address)), 90)

ScoredAs(p, address_rule(_, _)) ==
  /\ p.score = Weighted(p.match_details.email_match,
                        p.match_details.last_name_match,
                        p.match_details.address_match)
  /\ p.match_details.email_match <=>
       /\ NonEmptyStr(p.excel.Email)
       /\ p.hoa.Email # <<>>
       /\ EmailAmong(p.excel, p.hoa)
  /\ p.match_details.last_name_match <=>
       /\ NonEmptyStr(p.excel.Last_Name)
       /\ NonEmptyStr(p.hoa.Last_Name)
       /\ LastNamesClose(p.excel, p.hoa)
  /\ p.match_details.address_match <=> address_rule(p.excel, p.hoa)
  /\ p.score \in {0, 15, 35, 50, 65, 85, 100}

\* C3 as stated: the score is 50*[email] + 35*[last name] + 15*[address], with
\* address_match iff the fuzzy ratio of the normalized addresses is >= 90.
C3_Original ==
  \A k \in 1..Len(scored) : ScoredAs(scored[k], AddressesClose)

AddressRuleOfCode(excel_record, hoa_record) ==
  /\ hoa_record.Full_Mailing_Address # <<>>
  /\ AddressesClose(excel_record, hoa_record)

\* C3 amended: the score is 50*[email] + 35*[last name] + 15*[address], with
\* email_match and last_name_match as stated and address_match iff the
\* household's full mailing address is non-empty and the fuzzy ratio of the
\* normalized addresses is >= 90; the score is one of 0, 15, 35, 50, 65, 85, 100.
C3_Score ==
  \A k \in 1..Len(scored) : ScoredAs(scored[k], AddressRuleOfCode)

\* a pair was scored whose household has no mailing address while both
\* normalized addresses are empty (ratio 100), and address_match is false
C3_Witness ==
  \E k \in 1..Len(scored) :
    /\ scored[k].hoa.Full_Mailing_Address = <<>>
    /\ AddressesClose(scored[k].excel, scored[k].hoa)
    /\ ~scored[k].match_details.address_match
    /\ scored[k].score = 85

\* the households the current owner can be scored against
Candidates ==
  {h \in 1..Len(hoa_df) :
     /\ h \notin matched_hoa_indices
     /\ ~CalculateRaises(excel_df[idx], hoa_df[h])}

ScoreOf(h) == calculate_match_score(excel_df[idx], hoa_df[h]).score

MaxCandidateScore ==
  IF Candidates = {} THEN 0
  ELSE CHOOSE m \in {ScoreOf(h) : h \in Candidates} :
         \A h \in Candidates : ScoreOf(h) <= m

\* ascending Number of Unique People, then the original order
OrderedBefore(a, b) ==
  \/ hoa_df[a].Number_of_Unique_People < hoa_df[b].Number_of_Unique_People
  \/ /\ hoa_df[a].Number_of_Unique_People = hoa_df[b].Number_of_Unique_People
     /\ a < b

\* C5 as stated: when an owner's scan ends, the best candidate has the maximum
\* score among the unclaimed households, and among those of that score it is
\* the first by ascending Number of Unique People, then original order.
C5_BestCandidate ==
  (ScanDone /\ best_hoa_idx # 0) =>
    /\ best_hoa_idx \in Candidates
    /\ \A h \in Candidates :
         /\ ScoreOf(h) <= best_score
         /\ (ScoreOf(h) = best_score /\ h # best_hoa_idx)
              => OrderedBefore(best_hoa_idx, h)

MatchedHouseholds ==
  {results[k].HOA_idx : k \in {j \in 1..Len(results) : IsMatchedRow(results[j])}}

C6_Inv ==
  /\ MatchedHouseholds = matched_hoa_indices
  /\ \A k1, k2 \in 1..Len(results) :
       (IsMatchedRow(results[k1]) /\ results[k1].HOA_idx = results[k2].HOA_idx)
         => k1 = k2

C6_Step ==
  /\ ScanDone =>
       IF MaxCandidateScore >= 50
       THEN \E h \in Candidates :
              /\ ScoreOf(h) = MaxCandidateScore
              /\ matched_hoa_indices' = matched_hoa_indices \cup {h}
              /\ matched_excel_indices' = matched_excel_indices \cup {idx}
              /\ Len(results') = Len(results) + 1
              /\ results'[Len(results')].Excel_idx = idx
              /\ results'[Len(results')].HOA_idx = h
              /\ results'[Len(results')].Match_Score = MaxCandidateScore
              /\ IsMatchedRow(results'[Len(results')])
       ELSE /\ matched_hoa_indices' = matched_hoa_indices
            /\ matched_excel_indices' = matched_excel_indices
            /\ results' = results
  /\ (Scanning /\ hoa_order[pos] \in matched_hoa_indices) =>
       /\ UNCHANGED <<best_score, best_hoa_idx, best_match_details, best_flags>>
       /\ UNCHANGED <<scored, errors, matched_hoa_indices, results>>
  /\ matched_hoa_indices \subseteq matched_hoa_indices'

\* C6: when an owner's scan ends the owner gets a matched row iff the maximum
\* score over the households unclaimed at that moment is >= 50; then exactly
\* the chosen household joins the claimed set, and a claimed household is
\* neither scored against nor paired with a later owner; otherwise nothing is
\* claimed.
C6_Claim == [](C6_Inv) /\ [][C6_Step]_vars

\* the second owner's scan ended with the household it scores best against
\* already claimed by the first owner
C6_Witness ==
  /\ ScanDone
  /\ idx = 2
  /\ matched_hoa_indices # {}
  /\ \E h \in matched_hoa_indices :
       /\ ~CalculateRaises(excel_df[idx], hoa_df[h])
       /\ ScoreOf(h) > MaxCandidateScore
       /\ ScoreOf(h) >= 50

\* C7: a row carries RECORD_REMOVED iff it is an owner without household, and
\* NEW_RECORD iff it is a household without owner; such a row has score 0, the
\* three booleans false, type "No Match" and only that flag; every owner left
\* unmatched and every household left unclaimed has such a row on return.
C7_ExistenceFlags ==
  /\ \A k \in 1..Len(results) :
       LET row == results[k] IN
       /\ "RECORD_REMOVED" \in row.Match_Flags <=>
            (row.Excel_idx # 0 /\ row.HOA_idx = 0)
       /\ "NEW_RECORD" \in row.Match_Flags <=>
            (row.Excel_idx = 0 /\ row.HOA_idx # 0)
       /\ (row.Excel_idx = 0 \/ row.HOA_idx = 0) =>
            /\ row.Match_Score = 0
            /\ ~row.Email_Match /\ ~row.Last_Name_Match /\ ~row.Address_Match
            /\ row.Match_Type = "No Match"
            /\ Cardinality(row.Match_Flags) = 1
  /\ Returned =>
       /\ \A i \in (1..Len(excel_df)) \ matched_excel_indices :
            \E k \in 1..Len(results) :
              results[k].Excel_idx = i /\ results[k].Match_Flags = {"RECORD_REMOVED"}
       /\ \A h \in (1..Len(hoa_df)) \ matched_hoa_indices :
            \E k \in 1..Len(results) :
              results[k].HOA_idx = h /\ results[k].Match_Flags = {"NEW_RECORD"}

\* a returned run with a RECORD_REMOVED row, a NEW_RECORD row and a matched
\* row that carries flags of its own
C7_Witness ==
  /\ Returned
  /\ \E k \in 1..Len(results) : results[k].Match_Flags = {"RECORD_REMOVED"}
  /\ \E k \in 1..Len(results) : results[k].Match_Flags = {"NEW_RECORD"}
  /\ \E k \in 1..Len(results) :
       IsMatchedRow(results[k]) /\ results[k].Match_Flags # {}

\* C8 as stated: with no owners and no households match_records does not
\* raise, returns no rows, and the summary reports that there are no records.
C8_EmptyRun ==
  (excel_df = <<>> /\ hoa_df = <<>>) =>
    /\ pc # "raised"
    /\ Returned => results = <<>>
    /\ pc = "analyzed" => analysis_summary[1].text = "No records to analyze."

\* C9: with exactly one input empty match_records does not raise and returns
\* one NEW_RECORD row per household (no owners) or one RECORD_REMOVED row per
\* owner (no households), and no other row.
C9_OneEmptyInput ==
  /\ (excel_df = <<>> /\ hoa_df # <<>>) =>
       /\ pc # "raised"
       /\ Returned =>
            /\ Len(results) = Len(hoa_df)
            /\ \A h \in 1..Len(hoa_df) :
                 \E k \in 1..Len(results) :
                   /\ results[k].HOA_idx = h
                   /\ results[k].Excel_idx = 0
                   /\ results[k].Match_Flags = {"NEW_RECORD"}
  /\ (excel_df # <<>> /\ hoa_df = <<>>) =>
       /\ pc # "raised"
       /\ Returned =>
            /\ Len(results) = Len(excel_df)
            /\ \A i \in 1..Len(excel_df) :
                 \E k \in 1..Len(results) :
                   /\ results[k].Excel_idx = i
                   /\ results[k].HOA_idx = 0
                   /\ results[k].Match_Flags = {"RECORD_REMOVED"}

\* a returned run on no owners and two equal households
C9_Witness ==
  /\ Returned
  /\ excel_df = <<>>
  /\ Len(hoa_df) = 2
  /\ hoa_df[1] = hoa_df[2]
  /\ Len(results) = 2

C10_Inv ==
  /\ errors # {} => pc # "raised"
  /\ \A k \in 1..Len(results) :
       <<results[k].Excel_idx, results[k].HOA_idx>> \notin errors

C10_Step ==
  errors' # errors =>
    /\ Scanning
    /\ errors' = errors \cup {<<idx, hoa_order[pos]>>}
    /\ UNCHANGED <<best_score, best_hoa_idx, best_match_details, best_flags>>
    /\ UNCHANGED <<matched_hoa_indices, matched_excel_indices, results>>
    /\ pc' = "scan"
    /\ idx' = idx
    /\ pos' = pos + 1

\* C10: a pair whose scoring raises leaves the best score and the claimed set
\* as they were, the scan goes on with the next household, the run never
\* fails because of it, and no row pairs the two.
C10_ErrorIsolated == [](C10_Inv) /\ [][C10_Step]_vars

\* a returned run in which an owner's comparison raised and the same owner was
\* then matched with a household scanned later
C10_Witness ==
  /\ Returned
  /\ \E e \in errors :
       \E k \in 1..Len(results) :
         /\ results[k].Excel_idx = e[1]
         /\ IsMatchedRow(results[k])
         /\ \E a, b \in 1..Len(hoa_order) :
              a < b /\ hoa_order[a] = e[2] /\ hoa_order[b] = results[k].HOA_idx

\* a column of Input A or Input B that the frame handed over lacks
MissingColumn ==
  \/ \E column \in OwnerColumns : ~HasColumn(excel_df, column)
  \/ \E column \in HoaColumns : ~HasColumn(hoa_df, column)

\* C11 as stated: when an input lacks a required column match_records raises;
\* it never returns a result set.
C11_MissingColumnFails == MissingColumn => ~Returned

\* C12: in the rows returned no row is preceded by a row of strictly lower
\* score, every Exact row precedes every Fuzzy row and every Fuzzy row
\* precedes every No Match row.
C12_Ordered ==
  Returned =>
    \A a, b \in 1..Len(results) :
      a < b =>
        /\ results[a].Match_Score >= results[b].Match_Score
        /\ results[b].Match_Type = "Exact" => results[a].Match_Type = "Exact"
        /\ results[a].Match_Type = "No Match" => results[b].Match_Type = "No Match"

\* a returned run in which the second owner's Exact row was appended after
\* the first owner's Fuzzy row and comes first
C12_Witness ==
  /\ Returned
  /\ Len(results) >= 2
  /\ results[1].Match_Type = "Exact" /\ results[1].Excel_idx = 2
  /\ results[2].Match_Type = "Fuzzy" /\ results[2].Excel_idx = 1

\* the score of the pair when it can be matched, else 0
PairScore(i, h) ==
  IF CalculateRaises(excel_df[i], hoa_df[h]) THEN 0
  ELSE LET score == calculate_match_score(excel_df[i], hoa_df[h]).score
       IN IF score >= 50 THEN score ELSE 0

\* the score of the row the owner was returned in
OwnerScore(i) ==
  LET k == CHOOSE k \in 1..Len(results) : results[k].Excel_idx = i
  IN results[k].Match_Score

\* C13: the assignment is first come, first served: on return an owner has a
\* household it scores strictly higher against than the row it got only when
\* an earlier owner claimed that household; the earlier owner keeps it, so the
\* later one ends lower or unmatched.
C13_Greedy ==
  pc = "done" =>
    \A j \in 1..Len(excel_df), h \in 1..Len(hoa_df) :
      PairScore(j, h) > OwnerScore(j) =>
        \E k \in 1..Len(results) :
          /\ results[k].HOA_idx = h
          /\ results[k].Excel_idx \in 1..(j - 1)
          /\ IsMatchedRow(results[k])

\* a returned run of two owners and one household: the first owner claimed
\* the household with a score below the second owner's, the second owner is
\* unmatched, and the matched total is below what giving the household to
\* the second owner yields
C13_Witness ==
  /\ pc = "done"
  /\ Len(excel_df) = 2 /\ Len(hoa_df) = 1
  /\ OwnerScore(1) >= 50
  /\ PairScore(2, 1) > PairScore(1, 1)
  /\ OwnerScore(2) = 0
  /\ OwnerScore(1) + OwnerScore(2) < PairScore(2, 1)

\* C14 as stated: a second run of match_records on the same inputs returns
\* what the first returned: the same rows in the same order, with the same
\* scores, booleans, types and the same Match_Flags lists.
C14_Deterministic ==
  [][(pc = "ran" /\ pc' = "ran") => results' = results]_vars

\* the raw contacts of one group key
ContactsOf(key) == {k \in 1..Len(raw_df) : group_key(raw_df[k]) = key}

\* the output records of one group key
RecordsOf(key) ==
  {j \in 1..Len(condensed_records) : group_key(condensed_records[j]) = key}

\* the distinct non-empty first names among the contacts of one group key
NonEmptyFirstNames(key) ==
  {raw_df[k].First_Name : k \in ContactsOf(key)} \ {NaN, <<>>}

\* C15 as stated: the contacts that share a group key condense to exactly one
\* record, whose Number of Unique People is the number of distinct non-empty
\* first names among them.
C15_OccupantCount ==
  pc = "condensed" =>
    \A k \in 1..Len(raw_df) :
      LET key == group_key(raw_df[k]) IN
      /\ Cardinality(RecordsOf(key)) = 1
      /\ \A j \in RecordsOf(key) :
           condensed_records[j].Number_of_Unique_People
             = Cardinality(NonEmptyFirstNames(key))

\* C16 as stated: every output record has Number of Unique People >= 1 and
\* Number of Unique Emails equal to the length of its Email list, which holds
\* distinct non-empty emails only.
C16_Counts ==
  \A j \in 1..Len(condensed_records) :
    LET record == condensed_records[j] IN
    /\ record.Number_of_Unique_People >= 1
    /\ record.Number_of_Unique_Emails = Len(record.Email)
    /\ \A a, b \in 1..Len(record.Email) :
         a # b => record.Email[a] # record.Email[b]
    /\ \A a \in 1..Len(record.Email) : record.Email[a] \notin {NaN, <<>>}

\* C17: condense_records partitions its input: on return every raw contact,
\* with or without a property address, has the group key of exactly one
\* output record, and there are as many records as distinct group keys.
C17_Partition ==
  /\ \A i, j \in 1..Len(condensed_records) :
       group_key(condensed_records[i]) = group_key(condensed_records[j]) => i = j
  /\ pc = "condensed" =>
       /\ \A k \in 1..Len(raw_df) :
            Cardinality({j \in 1..Len(condensed_records) :
                           group_key(condensed_records[j]) = group_key(raw_df[k])}) = 1
       /\ Len(condensed_records)
            = Cardinality({group_key(raw_df[k]) : k \in 1..Len(raw_df)})

\* two contacts, one with a missing and one with an empty property address,
\* returned as one record
C17_Witness ==
  /\ pc = "condensed"
  /\ Len(raw_df) = 2
  /\ raw_df[1].Full_Property_Address = NaN
  /\ raw_df[2].Full_Property_Address = <<>>
  /\ Len(condensed_records) = 1
  /\ condensed_records[1].Number_of_Unique_People = 2

ConfidenceFlagNames ==
  {"HIGH_CONFIDENCE_MATCH", "MEDIUM_CONFIDENCE_MATCH", "LOW_CONFIDENCE_MATCH"}

EmailFlagNames ==
  {"NO_EMAILS", "EMAIL_PRESERVED", "MULTIPLE_EMAILS", "EMAIL_CHECK_NEEDED"}

\* C19: the email flags of a scored pair are exactly {NO_EMAILS} when owner
\* email and household emails are both empty (and email_match is false),
\* exactly {EMAIL_PRESERVED} when the owner email is not empty and the
\* household has none; otherwise MULTIPLE_EMAILS iff the household has more
\* than one email and EMAIL_CHECK_NEEDED iff the owner email is not empty and
\* equals no household email ignoring case.
C19_EmailFlags ==
  \A k \in 1..Len(scored) :
    LET excel_email == scored[k].excel.Email
        hoa_emails == scored[k].hoa.Email
        email_flags == scored[k].flags \cap EmailFlagNames
    IN IF excel_email = <<>> /\ hoa_emails = <<>>
       THEN email_flags = {"NO_EMAILS"} /\ ~scored[k].match_details.email_match
       ELSE IF hoa_emails = <<>>
       THEN email_flags = {"EMAIL_PRESERVED"}
       ELSE /\ "NO_EMAILS" \notin email_flags
            /\ "EMAIL_PRESERVED" \notin email_flags
            /\ "MULTIPLE_EMAILS" \in email_flags <=> Len(hoa_emails) > 1
            /\ "EMAIL_CHECK_NEEDED" \in email_flags <=>
                 /\ excel_email # <<>>
                 /\ \A j \in 1..Len(hoa_emails) :
                      Lower(hoa_emails[j]) # Lower(excel_email)

\* a pair scored whose owner has an email and whose household has none
C19_Witness ==
  \E k \in 1..Len(scored) :
    /\ NonEmptyStr(scored[k].excel.Email)
    /\ scored[k].hoa.Email = <<>>
    /\ "EMAIL_PRESERVED" \in scored[k].flags

HouseholdFlagNames ==
  {"COMMON_MEMBER_PRESENT", "PARTIAL_HOUSEHOLD_MATCH", "NAME_COUNT_CHANGE",
   "HOUSEHOLD_COMPOSITION_CHANGE"}

\* the parts of a full name between the "&", trimmed and in lower case
Tokens(full_name) ==
  LET parts == Split(full_name, "&")
  IN [k \in 1..Len(parts) |-> Lower(Strip(parts[k]))]

\* C20: for a household that is not a company, when either full name has an
\* "&": COMMON_MEMBER_PRESENT iff the token sets intersect,
\* PARTIAL_HOUSEHOLD_MATCH iff a token is on one side only, NAME_COUNT_CHANGE
\* iff the numbers of tokens differ, HOUSEHOLD_COMPOSITION_CHANGE iff both of
\* the first two; "Rick & Laura" against "Bob & Laura" has the first two and
\* the last, and not NAME_COUNT_CHANGE.
C20_HouseholdFlags ==
  \A k \in 1..Len(scored) :
    LET excel_full == Strip(scored[k].excel.First_Name \o <<" ">>
                              \o scored[k].excel.Last_Name)
        hoa_full == Strip(scored[k].hoa.First_Name \o <<" ">>
                            \o scored[k].hoa.Last_Name)
        excel_tokens == Tokens(excel_full)
        hoa_tokens == Tokens(hoa_full)
        flags == scored[k].flags \cap HouseholdFlagNames
    IN (~scored[k].hoa.Is_Company /\ ("&" \in Range(excel_full) \/ "&" \in Range(hoa_full)))
       => /\ "COMMON_MEMBER_PRESENT" \in flags <=>
               Range(excel_tokens) \cap Range(hoa_tokens) # {}
          /\ "PARTIAL_HOUSEHOLD_MATCH" \in flags <=>
               Range(excel_tokens) # Range(hoa_tokens)
          /\ "NAME_COUNT_CHANGE" \in flags <=> Len(excel_tokens) # Len(hoa_tokens)
          /\ "HOUSEHOLD_COMPOSITION_CHANGE" \in flags <=>
               {"COMMON_MEMBER_PRESENT", "PARTIAL_HOUSEHOLD_MATCH"} \subseteq flags
          /\ (excel_full = Rick_Laura /\ hoa_full = Bob_Laura) =>
               flags = {"COMMON_MEMBER_PRESENT", "PARTIAL_HOUSEHOLD_MATCH",
                        "HOUSEHOLD_COMPOSITION_CHANGE"}

\* owner "Rick & Laura" scored against household "Bob & Laura"
C20_Witness ==
  \E k \in 1..Len(scored) :
    /\ scored[k].excel.First_Name = Rick_Laura /\ scored[k].excel.Last_Name = <<>>
    /\ scored[k].hoa.First_Name = Bob_Laura /\ scored[k].hoa.Last_Name = <<>>
    /\ ~scored[k].hoa.Is_Company
    /\ "HOUSEHOLD_COMPOSITION_CHANGE" \in scored[k].flags
    /\ "NAME_COUNT_CHANGE" \notin scored[k].flags

\* C21: analyze_matches returns the "No records to analyze." result for an
\* empty result set; for a result set with rows the total it reports is the
\* number of rows and the Exact, Fuzzy and No Match counts add up to it.
C21_Summary ==
  pc = "analyzed" =>
    LET summary == analysis_summary[1] IN
    IF Len(results) = 0
    THEN summary.text = "No records to analyze."
    ELSE /\ summary.text # "No records to analyze."
         /\ summary.total = Len(results)
         /\ summary.exact + summary.fuzzy + summary.no_match = summary.total
         /\ summary.exact
              = Cardinality({k \in 1..Len(results) : results[k].Match_Score >= 100})
         /\ summary.no_match
              = Cardinality({k \in 1..Len(results) :
                               results[k].Excel_idx = 0 \/ results[k].HOA_idx = 0})

\* the empty result set was analyzed
C21_Witness ==
  /\ pc = "analyzed"
  /\ results = <<>>
  /\ analysis_summary # <<>>

\* C22 as stated: for a household that is not a company, with both last names
\* non-empty and the ratio of the last names below 90, NAME_ORDER_SWAP is
\* flagged iff the ratio of the owner's last name and the household's first
\* name is >= 90, otherwise NAME_MISMATCH; never both, and neither when the
\* ratio of the last names is >= 90.
C22_NameOrderSwap ==
  \A k \in 1..Len(scored) :
    LET excel_last == scored[k].excel.Last_Name
        hoa_last == scored[k].hoa.Last_Name
        hoa_first == scored[k].hoa.First_Name
        flags == scored[k].flags
    IN (~scored[k].hoa.Is_Company /\ excel_last # <<>> /\ hoa_last # <<>>) =>
         IF RatioGE(fuzz_ratio(Lower(excel_last), Lower(hoa_last)), 90)
         THEN "NAME_ORDER_SWAP" \notin flags /\ "NAME_MISMATCH" \notin flags
         ELSE /\ "NAME_ORDER_SWAP" \in flags <=>
                   RatioGE(fuzz_ratio(Lower(excel_last), Lower(hoa_first)), 90)
              /\ "NAME_MISMATCH" \in flags <=> "NAME_ORDER_SWAP" \notin flags

AddressFlagNames == {"ADDRESS_FORMAT_DIFF", "ADDRESS_MISMATCH", "MULTIPLE_PROPERTIES"}

OwnerAddressBlank(excel_record) ==
  /\ excel_record.Street = <<>>
  /\ excel_record.City = <<>>
  /\ excel_record.StateZip = <<>>

\* C23 as stated: a pair whose owner has an empty street, city and state/zip,
\* or whose household has a blank full mailing address, carries no address
\* flag.
C23_BlankAddressSkipped ==
  \A k \in 1..Len(scored) :
    (\/ OwnerAddressBlank(scored[k].excel)
     \/ Strip(scored[k].hoa.Full_Mailing_Address) = <<>>) =>
      scored[k].flags \cap AddressFlagNames = {}

NameFlagNames ==
  {"COMPANY_RECORD", "COMMON_MEMBER_PRESENT", "PARTIAL_HOUSEHOLD_MATCH",
   "NAME_COUNT_CHANGE", "HOUSEHOLD_COMPOSITION_CHANGE", "NAME_ORDER_SWAP",
   "NAME_MISMATCH"}

\* C25: for a household that is a company the name flags of the pair are
\* exactly {COMPANY_RECORD}, whatever the names are; the score, the match
\* booleans and the other flags are those of the same pair with a household
\* that is not a company.
C25_CompanyRecord ==
  \A k \in 1..Len(scored) :
    scored[k].hoa.Is_Company =>
      LET other == calculate_match_score(scored[k].excel,
                     [scored[k].hoa EXCEPT !.Is_Company = FALSE])
      IN /\ scored[k].flags \cap NameFlagNames = {"COMPANY_RECORD"}
         /\ scored[k].score = other.score
         /\ scored[k].match_details = other.match_details
         /\ scored[k].flags \ NameFlagNames = other.flags \ NameFlagNames

C25_Witness ==
  /\ pc = "scored"
  /\ scored[1].hoa.Is_Company
  /\ scored[1].excel.Last_Name = Richardson
  /\ scored[1].hoa.First_Name = Rick_Laura
  /\ scored[1].hoa.Last_Name = Doe
  /\ "COMPANY_RECORD" \in scored[1].flags

\* the households claimed by the owners before owner i, read off the rows
ClaimedBefore(i) ==
  {results[k].HOA_idx : k \in {j \in 1..Len(results) :
                                 IsMatchedRow(results[j]) /\ results[j].Excel_idx < i}}

C26_Inv ==
  pc = "scan" =>
    /\ matched_hoa_indices = ClaimedBefore(idx)
    /\ \A k \in 1..Len(results) : results[k].Excel_idx < idx
    /\ \A e \in matched_excel_indices : e < idx
    /\ best_hoa_idx # 0 => best_hoa_idx \notin matched_hoa_indices

C26_Step ==
  /\ matched_hoa_indices \subseteq matched_hoa_indices'
  /\ Scanning => /\ matched_hoa_indices' = matched_hoa_indices
                 /\ idx' = idx
  /\ matched_hoa_indices' # matched_hoa_indices =>
       /\ ScanDone
       /\ best_hoa_idx \notin matched_hoa_indices
       /\ matched_hoa_indices' = matched_hoa_indices \cup {best_hoa_idx}
       /\ matched_excel_indices' = matched_excel_indices \cup {idx}
       /\ Len(results') = Len(results) + 1
       /\ results'[Len(results')].Excel_idx = idx
       /\ results'[Len(results')].HOA_idx = best_hoa_idx
       /\ pc' = "scan" => idx' = idx + 1

\* C26: the scan of one owner's candidates leaves the claimed set unchanged;
\* the set changes only at that owner's commit, by the one chosen household;
\* commits come one at a time in owner order, so the households an owner may
\* be scored against are those not claimed by the owners before it, and the
\* claimed set never shrinks.
C26_ClaimedFrame == [](C26_Inv) /\ [][C26_Step]_vars

\* both owners committed, each its own household
C26_Witness ==
  /\ Returned
  /\ matched_excel_indices = {1, 2}
  /\ Cardinality(matched_hoa_indices) = 2

\* the requests that failed so far, and those that succeeded
Failed == {k \in 1..Len(responses) : ~responses[k].ok}

Succeeded == {k \in 1..Len(responses) : responses[k].ok}

\* C27: get_member_address makes at most max_retries requests; the first
\* request that succeeds is the last one made and its extracted address info
\* is returned; the failed attempt number k, counted from 0, is followed by a
\* wait of initial_delay*2^k when k < max_retries-1; the last failed attempt is
\* followed by no wait and by the return of None.
C27_Retries ==
  /\ Len(responses) <= max_retries
  /\ \A k \in Succeeded :
       /\ k = Len(responses)
       /\ fetch_result = <<extract_address_info(responses[k].page)>>
  /\ \A k \in Failed :
       IF k - 1 < max_retries - 1
       THEN /\ Len(slept) >= k
            /\ slept[k] = initial_delay * 2^(k - 1)
       ELSE /\ Len(slept) = k - 1
            /\ fetch_result = <<ReturnsNone>>
  /\ (pc = "request" /\ attempt < max_retries) =>
       /\ fetch_result = <<>>
       /\ Len(responses) = attempt
       /\ Len(slept) = attempt
  /\ fetch_result = <<ReturnsNone>> => Succeeded = {} /\ Len(responses) = max_retries

\* the third request succeeded after two failed ones and two waits
C27_Witness ==
  /\ pc = "fetched"
  /\ Len(responses) = 3
  /\ Failed = {1, 2}
  /\ initial_delay = 2
  /\ slept = <<2, 4, 1>>
  /\ fetch_result # <<ReturnsNone>>

====
